---- MODULE Spec2Model ----
(***************************************************************************)
(* Attitude estimation module (flight/Modules/Attitude/attitude.c).       *)
(*                                                                         *)
(* Two processes share the module's statics: the attitude task            *)
(* (AttitudeTask: gain scheduling, sensor update, attitude update, alarm)  *)
(* and the settings callback (settingsUpdatedCb), which runs in the event  *)
(* dispatcher's context whenever the AttitudeSettings object is set.       *)
(*                                                                         *)
(* Floats are fixed point:                                                 *)
(*   gains kp, ki, yaw bias rate, gyro gain      1/100                     *)
(*   gyro rates, gyro_correct_int                1/100 deg/s               *)
(*   averaged raw accel (float x / i)            1/RS raw units            *)
(*   scaled accel                                cm/s^2                    *)
(*   quaternion, gravity direction               1/QS                      *)
(*   accel_alpha, normalised accel error         1/ES                      *)
(*   time                                        ticks of 1 ms             *)
(* A float that is infinite or not a number is the flag nan of the         *)
(* quaternion record.  Temperature fields are not modelled.                *)
(***************************************************************************)
EXTENDS Integers, Sequences, FiniteSets, TLC

\* ------------------------------------------------------------ bounds
\* main-loop iterations explored
MaxCycles == 2
\* writes of the AttitudeSettings object by the ground station
MaxUpdates == 2

\* ------------------------------------------------ program constants
GYRO_NEUTRAL == 1665
MAX_TRIM_FLIGHT_SAMPLES == 65535
\* GRAV / ACCEL_SCALE = 9.81f / (9.81f * 0.004f), 250 in raw accel units
GRAV_RAW == 250
\* ACCEL_SCALE = 9.81 * 0.004 m/s^2 per LSB, here cm/s^2 per 1000 LSB
ACCEL_SCALE_MILLI == 3924
\* warm-up window of the gain scheduler, in ticks
WARMUP_START == 1000
WARMUP_END == 7000
\* fakeDt = 0.0025 s in settingsUpdatedCb, here in microseconds
FAKE_DT_US == 2500
\* at most 32 accelerometer samples are averaged per cycle
MAX_ACCEL_BURST == 32

\* ------------------------------------------------- fixed point scales
QS == 10 * 10
ES == 10 * 10 * 10
RS == 4 * 4

\* ------------------------------------------------------------ helpers
\* C integer division and float-to-integer conversion truncate toward zero.
Div(a, b) == IF a >= 0 THEN a \div b ELSE -((-a) \div b)

RECURSIVE SqrtSearch(_, _, _)
SqrtSearch(n, lo, hi) ==
  IF hi - lo <= 1 THEN lo
  ELSE LET mid == (lo + hi) \div 2
       IN IF mid * mid <= n THEN SqrtSearch(n, mid, hi)
          ELSE SqrtSearch(n, lo, mid)

\* sqrtf on a fixed point square: the integer square root
Sqrt(n) == IF n <= 0 THEN 0 ELSE SqrtSearch(n, 0, 46341)

\* rot_mult(R, vec, out, false): out = R * vec
rot_mult(R, v) ==
  << R[1][1] * v[1] + R[1][2] * v[2] + R[1][3] * v[3],
     R[2][1] * v[1] + R[2][2] * v[2] + R[2][3] * v[3],
     R[3][1] * v[1] + R[3][2] * v[2] + R[3][3] * v[3] >>

\* CrossProduct(v1, v2, result)
CrossProduct(a, b) ==
  << a[2] * b[3] - a[3] * b[2],
     a[3] * b[1] - a[1] * b[3],
     a[1] * b[2] - a[2] * b[1] >>

\* sine and cosine of a board rotation angle given in centi-degrees; the
\* configurations explored rotate by multiples of 90 degrees
SinRight(cd) == CASE cd % 36000 = 0 -> 0
                [] cd % 36000 = 9000 -> 1
                [] cd % 36000 = 18000 -> 0
                [] OTHER -> -1

CosRight(cd) == SinRight(cd + 9000)

\* RPY2Quaternion followed by Quaternion2R: the body rotation matrix of
\* roll, pitch, yaw (rotation order yaw, pitch, roll)
RotationMatrix(rpy) ==
  LET sr == SinRight(rpy[1])
      cr == CosRight(rpy[1])
      sp == SinRight(rpy[2])
      cp == CosRight(rpy[2])
      sy == SinRight(rpy[3])
      cy == CosRight(rpy[3])
  IN << << cp * cy, cp * sy, -sp >>,
        << sr * sp * cy - cr * sy, sr * sp * sy + cr * cy, sr * cp >>,
        << cr * sp * cy + sr * sy, cr * sp * sy - sr * cy, cr * cp >> >>

IdentityR == << <<1, 0, 0>>, <<0, 1, 0>>, <<0, 0, 1>> >>

\* expf(-fakeDt / AccelTau) in 1/ES, AccelTau in microseconds: the series
\* 1 - x + x^2/2 of exp(-x), x = fakeDt / AccelTau
expf_neg(tauUs) ==
  LET x == Div(FAKE_DT_US * ES, tauUs)
  IN ES - x + Div(x * x, 2 * ES)

\* ------------------------------------------------------------- state
VARIABLES
  settings,   \* the AttitudeSettings object
  pending,    \* an AttitudeSettings event is queued for settingsUpdatedCb
  ro,         \* read-only flags of Gyros, Accels, AttitudeActual
  tick,       \* xTaskGetTickCount()
  cc3d,       \* board revision 0x02: the unified-IMU adapter
  g,          \* the module's statics
  task,       \* AttitudeTask: position, locals
  cb,         \* settingsUpdatedCb in the dispatcher: position, local copy
  alarm,      \* SYSTEMALARMS_ALARM_ATTITUDE
  pub,        \* the published Gyros, Accels and AttitudeActual objects
  fault,      \* the processor trapped (integer division by zero)
  hist        \* history of the run, read by the properties only

vars == <<settings, pending, ro, tick, cc3d, g, task, cb, alarm, pub,
          fault, hist>>

\* ------------------------------------------------- explored inputs
\* Two settings records that differ in every field, so that a mixture of
\* the two is recognisable.  AccelTau in microseconds, BoardRotation in
\* centi-degrees, InitialGyroBias in 1/100 deg/s.
ConfigA ==
  [ AccelKp |-> 5, AccelKi |-> 1, YawBiasRate |-> 1, GyroGain |-> 42,
    AccelTau |-> 0, ZeroDuringArming |-> FALSE, BiasCorrectGyro |-> TRUE,
    AccelBias |-> <<0, 0, 0>>, InitialGyroBias |-> <<0, 0, 0>>,
    BoardRotation |-> <<0, 0, 0>>, TrimFlight |-> "NORMAL" ]

ConfigB ==
  [ AccelKp |-> 20, AccelKi |-> 10, YawBiasRate |-> 5, GyroGain |-> 40,
    AccelTau |-> 100000, ZeroDuringArming |-> TRUE, BiasCorrectGyro |-> FALSE,
    AccelBias |-> <<10, -10, 20>>, InitialGyroBias |-> <<100, 0, -100>>,
    BoardRotation |-> <<0, 0, 9000>>, TrimFlight |-> "NORMAL" ]

Configs == {ConfigA, ConfigB}

TrimCommands == {"NORMAL", "START", "LOAD"}

ArmedStates == {"DISARMED", "ARMING", "ARMED"}

\* commanded throttle, in 1/100
Throttles == {0, 50}

NoThrottle == 0

\* tick counts at which the task is observed: before, at the edges of,
\* inside and after the warm-up window
Ticks == {500, WARMUP_START, WARMUP_START + 4, WARMUP_END}

\* what the split adapter finds when samples are there: the gyro queue
\* entry (temperature, then three ADC codes) and the ADXL345 FIFO
SplitSamples ==
  { [gyro |-> <<0, GYRO_NEUTRAL, GYRO_NEUTRAL, GYRO_NEUTRAL>>,
     fifo |-> << <<3, 0, 250>>, <<0, 40, 250>> >>],
    [gyro |-> <<0, GYRO_NEUTRAL - 500, GYRO_NEUTRAL, GYRO_NEUTRAL + 100>>,
     fifo |-> << <<100, -100, -100>> >>] }

\* MPU6000 queue entries: gyro and accel already multiplied by
\* PIOS_MPU6000_GetScale() and PIOS_MPU6000_GetAccelScale(), in 1/100 deg/s
\* and cm/s^2
MpuSamples == { [gyro |-> <<0, 0, 0>>, accel |-> <<0, 0, -981>>],
                [gyro |-> <<21000, 0, -4200>>, accel |-> <<3924, 3924, 3924>>] }

\* what an integer division by zero yields: a trap, or some quotient
DivZeroOutcomes == { [trap |-> TRUE, quot |-> 0], [trap |-> FALSE, quot |-> 0],
                     [trap |-> FALSE, quot |-> -1] }

\* ---------------------------------------------------- settingsUpdatedCb
\* lines 564-577: gains, gyro gain, accel filter coefficient
cbGains(st, s) ==
  [st EXCEPT !.accelKp = s.AccelKp,
             !.accelKi = s.AccelKi,
             !.yawBiasRate = s.YawBiasRate,
             !.gyroGain = s.GyroGain,
             !.accel_alpha = IF s.AccelTau < 100 THEN 0
                             ELSE expf_neg(s.AccelTau),
             !.accel_filter_enabled = ~(s.AccelTau < 100)]

\* variant: the callback keeps the gyro bias integral
cbGyroBiasKept(st, s) == st

\* lines 586-588: the gyro bias integral restarts from InitialGyroBias
cbGyroBias(st, s) ==
  [st EXCEPT !.gyro_correct_int = s.InitialGyroBias]

\* lines 579-588: flags, accel bias, gyro bias integral
cbBias(st, s) ==
  cbGyroBias([st EXCEPT !.zero_during_arming = s.ZeroDuringArming,
                        !.bias_correct_gyro = s.BiasCorrectGyro,
                        !.accelbias = s.AccelBias], s)

\* lines 590-606: board rotation
cbRotation(st, s) ==
  IF s.BoardRotation = <<0, 0, 0>>
  THEN [st EXCEPT !.rotate = FALSE, !.R = IdentityR]
  ELSE [st EXCEPT !.rotate = TRUE, !.R = RotationMatrix(s.BoardRotation)]

\* a / trim_samples at lines 616-619; d is what the processor does when
\* trim_samples is zero
TrimMean(a, n, d) == IF n = 0 THEN d.quot ELSE Div(a, n)

\* lines 614-621: the local copy of the settings after "load"
cbLoadSettings(st, s, d) ==
  [s EXCEPT !.AccelBias =
              << TrimMean(st.trim_accels[1], st.trim_samples, d),
                 TrimMean(st.trim_accels[2], st.trim_samples, d),
                 TrimMean(st.trim_accels[3], st.trim_samples, d) + GRAV_RAW >>,
            !.TrimFlight = "NORMAL"]

\* lines 608-624: the trim command; the statics afterwards
cbTrim(st, s) ==
  IF s.TrimFlight = "START"
  THEN [st EXCEPT !.trim_accels = <<0, 0, 0>>,
                  !.trim_samples = 0,
                  !.trim_requested = TRUE]
  ELSE [st EXCEPT !.trim_requested = FALSE]

\* "load" divides by trim_samples without a guard
LoadTraps(st, s, d) ==
  s.TrimFlight = "LOAD" /\ st.trim_samples = 0 /\ d.trap

\* the divisions by zero that can happen: one outcome when none does
DivChoices(st, s) ==
  IF s.TrimFlight = "LOAD" /\ st.trim_samples = 0
  THEN DivZeroOutcomes
  ELSE {[trap |-> FALSE, quot |-> 0]}

\* the whole callback on the statics, lines 559-624
settingsUpdatedCb(st, s) ==
  cbTrim(cbRotation(cbBias(cbGains(st, s), s), s), s)

\* --------------------------------------------------------- gain scheduler
\* variant: a window that opens a few ticks late
InWarmupLate(tk) == (tk < WARMUP_END) /\ (tk > WARMUP_START + 4)

\* line 215: the warm-up window of the first seven seconds
InWarmup(tk) == (tk < WARMUP_END) /\ (tk > WARMUP_START)

\* variant: levelling whenever the vehicle is not disarmed
UseLevelingNotDisarmed(st, tk, armed) ==
  InWarmup(tk) \/ (st.zero_during_arming /\ armed # "DISARMED")

\* lines 215 and 223: the cycle runs with the levelling gains
UseLeveling(st, tk, armed) ==
  InWarmup(tk) \/ (st.zero_during_arming /\ armed = "ARMING")

\* lines 217-220 and 224-227: kp = 1, ki = 0.9, yaw bias rate = 0.23
LevelingGains(st) ==
  [st EXCEPT !.accelKp = 100,
             !.accelKi = 90,
             !.yawBiasRate = 23,
             !.accel_filter_enabled = FALSE]

\* lines 231-235: reload the rates from the settings object
ReloadGains(st, s) ==
  [st EXCEPT !.accelKi = s.AccelKi,
             !.accelKp = s.AccelKp,
             !.yawBiasRate = s.YawBiasRate,
             !.accel_filter_enabled = IF st.accel_alpha > 0 THEN TRUE ELSE @]

\* variant: the rates reloaded in every cycle outside Leveling
GainScheduleEveryCycle(st, init, s, tk, armed) ==
  IF UseLeveling(st, tk, armed) THEN LevelingGains(st)
  ELSE ReloadGains(st, s)

\* lines 215-237: the statics after the scheduler ran with local init
GainSchedule(st, init, s, tk, armed) ==
  IF UseLeveling(st, tk, armed) THEN LevelingGains(st)
  ELSE IF init = 0 THEN ReloadGains(st, s)
  ELSE st

\* lines 221, 228, 236: the local init after the scheduler ran
GainScheduleInit(st, init, tk, armed) ==
  IF UseLeveling(st, tk, armed) THEN 0 ELSE 1

\* ----------------------------------------------------------- updateSensors
\* lines 297-303: samples read from the FIFO in one cycle
BurstLen(fifo) ==
  IF Len(fifo) < MAX_ACCEL_BURST THEN Len(fifo) ELSE MAX_ACCEL_BURST

RECURSIVE SumAxis(_, _, _)
SumAxis(fifo, n, k) ==
  IF n = 0 THEN 0 ELSE fifo[n][k] + SumAxis(fifo, n - 1, k)

\* lines 292-306: the averaged sample, y and z inverted, in 1/RS raw units
AccelAverage(fifo) ==
  LET i == BurstLen(fifo)
  IN << Div(SumAxis(fifo, i, 1) * RS, i),
        Div(-SumAxis(fifo, i, 2) * RS, i),
        Div(-SumAxis(fifo, i, 3) * RS, i) >>

\* lines 288-290: gyro rates from the ADC codes, in 1/100 deg/s
GyroRates(st, gyro) ==
  << -(gyro[2] - GYRO_NEUTRAL) * st.gyroGain,
     (gyro[3] - GYRO_NEUTRAL) * st.gyroGain,
     -(gyro[4] - GYRO_NEUTRAL) * st.gyroGain >>

\* lines 308-323 and 398-409: board rotation of a vector
Rotate(st, v) == IF st.rotate THEN rot_mult(st.R, v) ELSE v

\* lines 333-339: one more trim sample; the float sum is cut to int32
TrimAccumulate(st, a) ==
  [st EXCEPT !.trim_samples = @ + 1,
             !.trim_accels = << Div(@[1] * RS + a[1], RS),
                                Div(@[2] * RS + a[2], RS),
                                Div(@[3] * RS + a[3], RS) >>]

\* variant: collection whenever the vehicle is armed, whatever the throttle
TrimCollectAnyThrottle(st, a, armed, throttle) ==
  IF ~st.trim_requested THEN st
  ELSE IF st.trim_samples >= MAX_TRIM_FLIGHT_SAMPLES
       THEN [st EXCEPT !.trim_requested = FALSE]
  ELSE IF armed = "ARMED" THEN TrimAccumulate(st, a)
  ELSE st

\* variant: collection of the reading less the configured bias
TrimCollectLessBias(st, a, armed, throttle) ==
  IF ~st.trim_requested THEN st
  ELSE IF st.trim_samples >= MAX_TRIM_FLIGHT_SAMPLES
       THEN [st EXCEPT !.trim_requested = FALSE]
  ELSE IF armed = "ARMED" /\ throttle > 0
       THEN TrimAccumulate(st, << a[1] - st.accelbias[1] * RS,
                                  a[2] - st.accelbias[2] * RS,
                                  a[3] - st.accelbias[3] * RS >>)
  ELSE st

\* variant: collection without the sample cap
TrimCollectNoCap(st, a, armed, throttle) ==
  IF ~st.trim_requested THEN st
  ELSE IF armed = "ARMED" /\ throttle > 0 THEN TrimAccumulate(st, a)
  ELSE st

\* lines 325-341: trim collection of the split adapter
TrimCollect(st, a, armed, throttle) ==
  IF ~st.trim_requested THEN st
  ELSE IF st.trim_samples >= MAX_TRIM_FLIGHT_SAMPLES
       THEN [st EXCEPT !.trim_requested = FALSE]
  ELSE IF armed = "ARMED" /\ throttle > 0 THEN TrimAccumulate(st, a)
  ELSE st

\* lines 344-346: (accel - accelbias) * ACCEL_SCALE, in cm/s^2
ScaleAccel(st, a) ==
  << Div((a[1] - st.accelbias[1] * RS) * ACCEL_SCALE_MILLI, RS * 1000),
     Div((a[2] - st.accelbias[2] * RS) * ACCEL_SCALE_MILLI, RS * 1000),
     Div((a[3] - st.accelbias[3] * RS) * ACCEL_SCALE_MILLI, RS * 1000) >>

\* lines 348-353 and 419-424: the integral shows on the published rates
BiasCorrect(st, w) ==
  IF st.bias_correct_gyro
  THEN << w[1] + st.gyro_correct_int[1], w[2] + st.gyro_correct_int[2],
          w[3] + st.gyro_correct_int[3] >>
  ELSE w

\* variant: the yaw integral moves only while the gyro bias correction is on
YawBiasFlagged(st, w) ==
  IF st.bias_correct_gyro
  THEN [st EXCEPT !.gyro_correct_int[3] = @ + Div(-w[3] * st.yawBiasRate, 100)]
  ELSE st

\* lines 357 and 428: gyro_correct_int[2] += -gyros.z * yawBiasRate
YawBias(st, w) ==
  [st EXCEPT !.gyro_correct_int[3] = @ + Div(-w[3] * st.yawBiasRate, 100)]

\* lines 288-357 of updateSensors: the frame of a cycle that got samples
SensorsFrame(st, gyro, fifo) ==
  [ accels |-> ScaleAccel(st, Rotate(st, AccelAverage(fifo))),
    gyros |-> BiasCorrect(st, Rotate(st, GyroRates(st, gyro))) ]

\* lines 288-357 of updateSensors: the statics afterwards
SensorsStatics(st, gyro, fifo, armed, throttle) ==
  YawBias(TrimCollect(st, Rotate(st, AccelAverage(fifo)), armed, throttle),
          SensorsFrame(st, gyro, fifo).gyros)

NoFrame == [accels |-> <<0, 0, 0>>, gyros |-> <<0, 0, 0>>]

\* variant: a timeout that restarts the gyro bias integral
updateSensorsReset(st, in) ==
  IF ~in.rx
  THEN [retval |-> -1, st |-> [st EXCEPT !.gyro_correct_int = <<0, 0, 0>>],
        wrote |-> FALSE, frame |-> NoFrame]
  ELSE IF in.rdonly
       THEN [retval |-> 0, st |-> st, wrote |-> FALSE, frame |-> NoFrame]
  ELSE IF Len(in.fifo) = 0
       THEN [retval |-> -1, st |-> st, wrote |-> FALSE, frame |-> NoFrame]
  ELSE [retval |-> 0,
        st |-> SensorsStatics(st, in.gyro, in.fifo, in.armed, in.throttle),
        wrote |-> TRUE,
        frame |-> SensorsFrame(st, in.gyro, in.fifo)]

\* lines 268-363: the call.  in.rx: the gyro queue delivered within two
\* update periods; in.rdonly: GyrosReadOnly() || AccelsReadOnly();
\* wrote: the frame was filled and published
updateSensors(st, in) ==
  IF ~in.rx THEN [retval |-> -1, st |-> st, wrote |-> FALSE, frame |-> NoFrame]
  ELSE IF in.rdonly
       THEN [retval |-> 0, st |-> st, wrote |-> FALSE, frame |-> NoFrame]
  ELSE IF Len(in.fifo) = 0
       THEN [retval |-> -1, st |-> st, wrote |-> FALSE, frame |-> NoFrame]
  ELSE [retval |-> 0,
        st |-> SensorsStatics(st, in.gyro, in.fifo, in.armed, in.throttle),
        wrote |-> TRUE,
        frame |-> SensorsFrame(st, in.gyro, in.fifo)]

\* ------------------------------------------------------ updateSensorsCC3D
\* lines 411-413: accel - accelbias * ACCEL_SCALE, in cm/s^2
ScaleAccelCC3D(st, a) ==
  << a[1] - Div(st.accelbias[1] * ACCEL_SCALE_MILLI, 1000),
     a[2] - Div(st.accelbias[2] * ACCEL_SCALE_MILLI, 1000),
     a[3] - Div(st.accelbias[3] * ACCEL_SCALE_MILLI, 1000) >>

\* lines 386-424: the frame of a cycle that got a sample
SensorsFrameCC3D(st, m) ==
  [ accels |-> ScaleAccelCC3D(st, Rotate(st, m.accel)),
    gyros |-> BiasCorrect(st, Rotate(st, m.gyro)) ]

\* lines 386-428: the statics afterwards
SensorsStaticsCC3D(st, m) == YawBias(st, SensorsFrameCC3D(st, m).gyros)

\* variant: no pass-through return
updateSensorsCC3DWrites(st, in) ==
  IF ~in.rx THEN [retval |-> -1, st |-> st, wrote |-> FALSE, frame |-> NoFrame]
  ELSE [retval |-> 0,
        st |-> SensorsStaticsCC3D(st, in.mpu),
        wrote |-> TRUE,
        frame |-> SensorsFrameCC3D(st, in.mpu)]

\* lines 371-434: the call.  in.rx: the MPU6000 queue delivered within
\* SENSOR_PERIOD
updateSensorsCC3D(st, in) ==
  IF ~in.rx THEN [retval |-> -1, st |-> st, wrote |-> FALSE, frame |-> NoFrame]
  ELSE IF in.rdonly
       THEN [retval |-> 0, st |-> st, wrote |-> FALSE, frame |-> NoFrame]
  ELSE [retval |-> 0,
        st |-> SensorsStaticsCC3D(st, in.mpu),
        wrote |-> TRUE,
        frame |-> SensorsFrameCC3D(st, in.mpu)]

\* ---------------------------------------------------------- updateAttitude
\* lines 436-447
apply_accel_filter(st, raw, filtered) ==
  IF st.accel_filter_enabled
  THEN << Div(filtered[1] * st.accel_alpha + raw[1] * (ES - st.accel_alpha), ES),
          Div(filtered[2] * st.accel_alpha + raw[2] * (ES - st.accel_alpha), ES),
          Div(filtered[3] * st.accel_alpha + raw[3] * (ES - st.accel_alpha), ES) >>
  ELSE raw

\* line 457: dT in milliseconds; 0.001 s when the tick did not advance
DeltaT(st, now) == IF now = st.lastSysTime THEN 1 ELSE now - st.lastSysTime

\* lines 471-473: gravity rotated to the body frame, in 1/QS
Grot(v) ==
  << -Div(2 * (v[2] * v[4] - v[1] * v[3]), QS),
     -Div(2 * (v[3] * v[4] + v[1] * v[2]), QS),
     -Div(v[1] * v[1] - v[2] * v[2] - v[3] * v[3] + v[4] * v[4], QS) >>

SumSq3(v) == v[1] * v[1] + v[2] * v[2] + v[3] * v[3]

SumSq4(v) == v[1] * v[1] + v[2] * v[2] + v[3] * v[3] + v[4] * v[4]

\* lines 482-490: the two magnitudes, cm/s^2 and 1/QS
AccelMag(af) == Sqrt(SumSq3(af))

GrotMag(st, gf) == IF st.accel_filter_enabled THEN Sqrt(SumSq3(gf)) ELSE QS

\* line 492: both magnitudes above 1e-3
Correctable(st, af, gf) ==
  (GrotMag(st, gf) * 1000 > QS) /\ (AccelMag(af) * 10 > 1)

\* lines 479, 493-495: the normalised error, in 1/ES
AccelErr(st, af, gf) ==
  LET c == CrossProduct(af, gf)
      m == AccelMag(af) * GrotMag(st, gf)
  IN << Div(c[1] * ES, m), Div(c[2] * ES, m), Div(c[3] * ES, m) >>

\* lines 498-499: the roll and pitch integrals
IntegralCorrect(st, err) ==
  [st EXCEPT !.gyro_correct_int[1] = @ + Div(err[1] * st.accelKi, ES),
             !.gyro_correct_int[2] = @ + Div(err[2] * st.accelKi, ES)]

\* lines 504-506: gyros += accel_err * accelKp / dT
RateCorrect(st, w, err, dT) ==
  << w[1] + Div(err[1] * st.accelKp * 1000, ES * dT),
     w[2] + Div(err[2] * st.accelKp * 1000, ES * dT),
     w[3] + Div(err[3] * st.accelKp * 1000, ES * dT) >>

\* one component of qdot, lines 513-516: c * dT * M_PI / 180 / 2, c the
\* sum of products of a quaternion component (1/QS) and a rate (1/100 deg/s)
QdotOf(c, dT) == Div(Div(Div(c, 100) * dT, 1000) * 355, 113 * 360)

\* lines 513-522: one Euler step
Integrate(v, w, dT) ==
  << v[1] + QdotOf(-v[2] * w[1] - v[3] * w[2] - v[4] * w[3], dT),
     v[2] + QdotOf(v[1] * w[1] - v[4] * w[2] + v[3] * w[3], dT),
     v[3] + QdotOf(v[4] * w[1] + v[1] * w[2] - v[2] * w[3], dT),
     v[4] + QdotOf(-v[3] * w[1] + v[2] * w[2] + v[1] * w[3], dT) >>

\* lines 524-529: force q0 >= 0
Canonical(v) ==
  IF v[1] < 0 THEN << -v[1], -v[2], -v[3], -v[4] >> ELSE v

\* variant: no renormalisation
Unnormalized(v) == [v |-> v, nan |-> FALSE]

\* lines 533-537: divide by the norm; 0 / 0 is not a number
Renormalize(v) ==
  LET qmag == Sqrt(SumSq4(v))
  IN IF qmag = 0 THEN [v |-> v, nan |-> TRUE]
     ELSE [v |-> << Div(v[1] * QS, qmag), Div(v[2] * QS, qmag),
                    Div(v[3] * QS, qmag), Div(v[4] * QS, qmag) >>,
           nan |-> FALSE]

IdentityQ == [v |-> <<QS, 0, 0, 0>>, nan |-> FALSE]

\* variant: no reinitialisation
ReinitNever(v, qn) == qn

\* lines 539-546: a short or not-a-number quaternion is reinitialised
Reinit(v, qn) ==
  IF (Sqrt(SumSq4(v)) * 1000 < QS) \/ qn.nan THEN IdentityQ ELSE qn

\* lines 509-546: the quaternion after the step with the corrected rates w
QuaternionStep(v, w, dT) ==
  LET c == Canonical(Integrate(v, w, dT))
  IN Reinit(c, Renormalize(c))

\* lines 449-546: the statics after one attitude update
updateAttitude(st, accels, gyros, now) ==
  LET dT == DeltaT(st, now)
      af == apply_accel_filter(st, accels, st.accels_filtered)
      gf == apply_accel_filter(st, Grot(st.q.v), st.grot_filtered)
      ok == Correctable(st, af, gf)
      err == IF ok THEN AccelErr(st, af, gf) ELSE <<0, 0, 0>>
      s1 == IF ok THEN IntegralCorrect(st, err) ELSE st
      w == IF ok THEN RateCorrect(st, gyros, err, dT) ELSE gyros
  IN [s1 EXCEPT !.lastSysTime = now,
                !.accels_filtered = af,
                !.grot_filtered = gf,
                !.q = QuaternionStep(st.q.v, w, dT)]

\* ------------------------------------------------------------ initial state
\* the statics after AttitudeInitialize, lines 79-103 and 129-163
InitStatics ==
  [ accelKi |-> 0, accelKp |-> 0, accel_alpha |-> 0,
    accel_filter_enabled |-> FALSE, yawBiasRate |-> 0, gyroGain |-> 42,
    accelbias |-> <<0, 0, 0>>, gyro_correct_int |-> <<0, 0, 0>>,
    q |-> IdentityQ,
    R |-> << <<0, 0, 0>>, <<0, 0, 0>>, <<0, 0, 0>> >>, rotate |-> FALSE,
    zero_during_arming |-> FALSE, bias_correct_gyro |-> TRUE,
    trim_requested |-> FALSE, trim_accels |-> <<0, 0, 0>>, trim_samples |-> 0,
    lastSysTime |-> 0, accels_filtered |-> <<0, 0, 0>>,
    grot_filtered |-> <<0, 0, 0>> ]

\* simulation set-ups: which published objects are read-only
ReadOnlyModes ==
  { [gyros |-> FALSE, accels |-> FALSE, attitude |-> FALSE],
    [gyros |-> TRUE, accels |-> FALSE, attitude |-> FALSE],
    [gyros |-> FALSE, accels |-> FALSE, attitude |-> TRUE],
    [gyros |-> FALSE, accels |-> TRUE, attitude |-> TRUE] }

\* the trim session since its "start": cycles that produced a frame with
\* the vehicle armed and throttle > 0, and whether their readings agree
NoTrimHist == [active |-> FALSE, n |-> 0, read |-> <<0, 0, 0>>, same |-> TRUE]

\* the state when the scheduler starts AttitudeTask, the AttitudeSettings
\* object holding s
InitWith(s) ==
  /\ settings = s
  /\ pending = FALSE
  /\ ro \in ReadOnlyModes
  /\ tick = 0
  /\ cc3d \in BOOLEAN
  /\ g = InitStatics
  /\ task = [pc |-> "start", init |-> 0, retval |-> 0, armed |-> "DISARMED",
             acq |-> "none", frame |-> NoFrame]
  /\ cb = [pc |-> "idle", s |-> s]
  /\ alarm = "UNINITIALISED"
  /\ pub = [Gyros |-> <<0, 0, 0>>, Accels |-> <<0, 0, 0>>,
            AttitudeActual |-> IdentityQ]
  /\ fault = FALSE
  /\ hist = [cycles |-> 0, updates |-> 0, applied |-> s,
             trim |-> NoTrimHist, failed |-> FALSE,
             biasReset |-> FALSE, forced |-> FALSE]

Init == InitWith(ConfigA)

\* a vehicle whose stored settings hold the trim command "start"
InitCollect == \E c \in Configs : InitWith([c EXCEPT !.TrimFlight = "START"])

LaterTicks == {tk \in Ticks : tk >= tick}

\* a sensor update returns at the next observed tick, if there is one
NextTicks ==
  IF \E u \in Ticks : u > tick
  THEN {tk \in Ticks : tk > tick /\ \A u \in Ticks : u <= tick \/ tk <= u}
  ELSE {tick}

\* the attitude task has the processor except while it waits for samples
\* in xQueueReceive (lines 274 and 379)
TaskBlocked == task.pc = "sense"

\* ----------------------------------------------------- the ground station
\* the ground station writes the AttitudeSettings object while no earlier
\* write waits for its callback
CanWrite ==
  /\ ~fault
  /\ TaskBlocked
  /\ ~pending
  /\ cb.pc = "idle"
  /\ hist.updates < MaxUpdates

\* UAVObject set of AttitudeSettings: another configuration, the trim
\* command kept
SetConfiguration(c) ==
  /\ CanWrite
  /\ c.GyroGain # settings.GyroGain
  /\ settings' = [c EXCEPT !.TrimFlight = settings.TrimFlight]
  /\ pending' = TRUE
  /\ hist' = [hist EXCEPT !.updates = @ + 1]
  /\ UNCHANGED <<ro, tick, cc3d, g, task, cb, alarm, pub, fault>>

\* UAVObject set of AttitudeSettings: another trim command, the rest kept
SetTrimFlight(cmd) ==
  /\ CanWrite
  /\ cmd # settings.TrimFlight
  /\ settings' = [settings EXCEPT !.TrimFlight = cmd]
  /\ pending' = TRUE
  /\ hist' = [hist EXCEPT !.updates = @ + 1]
  /\ UNCHANGED <<ro, tick, cc3d, g, task, cb, alarm, pub, fault>>

\* ------------------------------------------ settingsUpdatedCb, dispatched
\* the history of the trim session after the trim command of s
TrimHistAfter(s) ==
  IF s.TrimFlight = "START"
  THEN [active |-> TRUE, n |-> 0, read |-> <<0, 0, 0>>, same |-> TRUE]
  ELSE NoTrimHist

\* lines 561-588: AttitudeSettingsGet into the local copy, then gains,
\* filter, flags, accel bias and gyro bias integral
CbFirst ==
  /\ ~fault
  /\ TaskBlocked
  /\ cb.pc = "idle"
  /\ pending
  /\ pending' = FALSE
  /\ g' = cbBias(cbGains(g, settings), settings)
  /\ cb' = [pc |-> "rotation", s |-> settings]
  /\ hist' = [hist EXCEPT !.biasReset =
                @ \/ (g.gyro_correct_int # g'.gyro_correct_int)]
  /\ UNCHANGED <<settings, ro, tick, cc3d, task, alarm, pub, fault>>

\* lines 590-624: rotation and trim command; "load" writes the settings
\* object back, which queues another event
CbSecond ==
  /\ ~fault
  /\ TaskBlocked
  /\ cb.pc = "rotation"
  /\ \E d \in DivChoices(g, cb.s) :
       IF LoadTraps(g, cb.s, d)
       THEN /\ fault' = TRUE
            /\ g' = [cbRotation(g, cb.s) EXCEPT !.trim_requested = FALSE]
            /\ UNCHANGED <<settings, pending, cb, hist>>
       ELSE /\ g' = cbTrim(cbRotation(g, cb.s), cb.s)
            /\ cb' = [cb EXCEPT !.pc = "idle"]
            /\ settings' = IF cb.s.TrimFlight = "LOAD"
                           THEN cbLoadSettings(g, cb.s, d) ELSE settings
            /\ pending' = (pending \/ cb.s.TrimFlight = "LOAD")
            /\ hist' = [hist EXCEPT !.trim = TrimHistAfter(cb.s),
                                    !.applied = cb.s]
            /\ fault' = FALSE
  /\ UNCHANGED <<ro, tick, cc3d, task, alarm, pub>>

\* ------------------------------------------------------------ AttitudeTask
\* line 176
TaskStart ==
  /\ ~fault
  /\ task.pc = "start"
  /\ alarm' = "CLEAR"
  /\ task' = [task EXCEPT !.pc = "wait_accel"]
  /\ UNCHANGED <<settings, pending, ro, tick, cc3d, g, cb, pub, fault, hist>>

\* lines 179-182: no accelerometer data yet
StartupWait ==
  /\ ~fault
  /\ task.pc = "wait_accel"
  /\ alarm' = "CRITICAL"
  /\ UNCHANGED <<settings, pending, ro, tick, cc3d, g, task, cb, pub, fault,
                 hist>>

\* lines 179-207: the accelerometer produces data; the settings are forced
\* through settingsUpdatedCb in the task's own context
ForceSettings(tk) ==
  /\ ~fault
  /\ task.pc = "wait_accel"
  /\ tk \in LaterTicks
  /\ tick' = tk
  /\ \E d \in DivChoices(g, settings) :
       IF LoadTraps(g, settings, d)
       THEN /\ fault' = TRUE
            /\ g' = [cbRotation(cbBias(cbGains(g, settings), settings),
                                settings) EXCEPT !.trim_requested = FALSE]
            /\ UNCHANGED <<settings, pending, task, hist>>
       ELSE /\ g' = settingsUpdatedCb(g, settings)
            /\ task' = [task EXCEPT !.pc = "sched"]
            /\ settings' = IF settings.TrimFlight = "LOAD"
                           THEN cbLoadSettings(g, settings, d) ELSE settings
            /\ pending' = (pending \/ settings.TrimFlight = "LOAD")
            /\ hist' = [hist EXCEPT !.trim = TrimHistAfter(settings),
                                    !.applied = settings,
                                    !.biasReset = @ \/
                                      (g.gyro_correct_int # g'.gyro_correct_int)]
            /\ fault' = FALSE
  /\ UNCHANGED <<ro, cc3d, cb, alarm, pub>>

\* lines 212-237: FlightStatusGet and the gain scheduler
Schedule(armed) ==
  /\ ~fault
  /\ task.pc = "sched"
  /\ g' = GainSchedule(g, task.init, settings, tick, armed)
  /\ task' = [task EXCEPT !.pc = "sense",
                          !.init = GainScheduleInit(g, task.init, tick, armed),
                          !.armed = armed,
                          !.acq = "none"]
  /\ UNCHANGED <<settings, pending, ro, tick, cc3d, cb, alarm, pub, fault, hist>>

NoGyro == <<0, GYRO_NEUTRAL, GYRO_NEUTRAL, GYRO_NEUTRAL>>

NoMpu == [gyro |-> <<0, 0, 0>>, accel |-> <<0, 0, -981>>]

\* what one sensor update can meet: nothing queued in time, pass-through,
\* an empty FIFO, or samples.  The flight status is the one the scheduler
\* read in this iteration; the throttle matters to a trim session only.
SenseInputs ==
  LET rd == ro.gyros \/ ro.accels
      base == [rx |-> FALSE, rdonly |-> rd, gyro |-> NoGyro, fifo |-> << >>,
               mpu |-> NoMpu, armed |-> task.armed, throttle |-> NoThrottle]
      th == IF g.trim_requested \/ hist.trim.active THEN Throttles
            ELSE {NoThrottle}
  IN {base}
     \cup (IF rd THEN {[base EXCEPT !.rx = TRUE, !.throttle = f] : f \in th}
           ELSE IF cc3d
           THEN {[base EXCEPT !.rx = TRUE, !.mpu = m, !.throttle = f] :
                   m \in MpuSamples, f \in th}
           ELSE {[base EXCEPT !.rx = TRUE]}
                \cup {[base EXCEPT !.rx = TRUE, !.gyro = x.gyro,
                                   !.fifo = x.fifo, !.throttle = f] :
                        x \in SplitSamples, f \in th})

\* the accel reading of a frame in 1/RS raw units
RawReading(st, in) ==
  IF cc3d
  THEN LET a == Rotate(st, in.mpu.accel)
       IN << Div(a[1] * 1000 * RS, ACCEL_SCALE_MILLI),
             Div(a[2] * 1000 * RS, ACCEL_SCALE_MILLI),
             Div(a[3] * 1000 * RS, ACCEL_SCALE_MILLI) >>
  ELSE Rotate(st, AccelAverage(in.fifo))

\* the history of the trim session after a sensor update
TrimHistSense(h, res, in, r) ==
  IF h.active /\ res.wrote /\ in.armed = "ARMED" /\ in.throttle > 0
  THEN [h EXCEPT !.n = @ + 1,
                 !.read = IF h.n = 0 THEN r ELSE @,
                 !.same = h.n = 0 \/ (@ /\ h.read = r)]
  ELSE h

\* accels and gyros are locals of the loop body without initialiser (lines
\* 241-242): what updateAttitude reads when the adapter wrote nothing is
\* whatever the stack holds
UninitFrames ==
  { NoFrame,
    [accels |-> <<400, 0, -900>>, gyros |-> <<5000, 0, -300>>] }

\* the frame the task holds after the sensor update
FramesAfter(res) ==
  IF res.retval = 0 /\ ~res.wrote THEN UninitFrames ELSE {res.frame}

\* what the adapter meets, lines 274-284 and 379-383: no queue entry in
\* time, pass-through, an empty accelerometer FIFO, or a frame
Acquisition(in) ==
  IF ~in.rx THEN "timeout"
  ELSE IF in.rdonly THEN "passthrough"
  ELSE IF ~cc3d /\ in.fifo = << >> THEN "nodata"
  ELSE "frame"

\* variant: an alarm that stays raised
AlarmLatched(retval) == "ERROR"

\* lines 251-258: the alarm at the end of an iteration
AlarmAfter(retval) == IF retval # 0 THEN "ERROR" ELSE "CLEAR"

\* the sensor update of the board's adapter, lines 245-248
SensorUpdate(st, in) ==
  IF cc3d THEN updateSensorsCC3D(st, in) ELSE updateSensors(st, in)

\* lines 241-252: the sensor update; a failed one ends the iteration with
\* the alarm set
Sense(in, tk) ==
  /\ ~fault
  /\ task.pc = "sense"
  /\ hist.cycles < MaxCycles
  /\ tk \in NextTicks
  /\ tick' = tk
  /\ LET res == SensorUpdate(g, in)
     IN /\ g' = res.st
        /\ pub' = IF res.wrote
                  THEN [pub EXCEPT !.Gyros = res.frame.gyros,
                                   !.Accels = res.frame.accels]
                  ELSE pub
        /\ \E fr \in FramesAfter(res) :
             task' = [task EXCEPT !.retval = res.retval,
                                  !.acq = Acquisition(in),
                                  !.frame = fr,
                                  !.armed = IF res.retval # 0 THEN "DISARMED"
                                            ELSE @,
                                  !.pc = IF res.retval # 0 THEN "sched"
                                         ELSE "fuse"]
        /\ alarm' = IF res.retval # 0 THEN AlarmAfter(res.retval) ELSE alarm
        /\ hist' = [hist EXCEPT
                      !.cycles = IF res.retval # 0 THEN @ + 1 ELSE @,
                      !.failed = @ \/ res.retval # 0,
                      !.trim = TrimHistSense(@, res, in, RawReading(g, in))]
  /\ UNCHANGED <<settings, pending, ro, cc3d, cb, fault>>

\* variant: the attitude update runs whether or not AttitudeActual is
\* read-only
FuseAlways ==
  /\ ~fault
  /\ task.pc = "fuse"
  /\ g' = updateAttitude(g, task.frame.accels, task.frame.gyros, tick)
  /\ pub' = [pub EXCEPT !.AttitudeActual = g'.q]
  /\ alarm' = AlarmAfter(task.retval)
  /\ task' = [task EXCEPT !.pc = "sched", !.frame = NoFrame,
                          !.armed = "DISARMED"]
  /\ hist' = [hist EXCEPT !.cycles = @ + 1]
  /\ UNCHANGED <<settings, pending, ro, tick, cc3d, cb, fault>>

\* lines 253-259: the attitude update unless AttitudeActual is read-only,
\* then the alarm is cleared
Fuse ==
  /\ ~fault
  /\ task.pc = "fuse"
  /\ g' = IF ro.attitude THEN g
          ELSE updateAttitude(g, task.frame.accels, task.frame.gyros, tick)
  /\ pub' = IF ro.attitude THEN pub ELSE [pub EXCEPT !.AttitudeActual = g'.q]
  /\ alarm' = AlarmAfter(task.retval)
  /\ task' = [task EXCEPT !.pc = "sched", !.frame = NoFrame,
                          !.armed = "DISARMED"]
  /\ hist' = [hist EXCEPT !.cycles = @ + 1]
  /\ UNCHANGED <<settings, pending, ro, tick, cc3d, cb, fault>>

\* an upset of the statics: the quaternion is zeroed before an attitude
\* update
ForceQuaternion ==
  /\ ~fault
  /\ task.pc = "fuse"
  /\ ~hist.forced
  /\ g' = [g EXCEPT !.q = [v |-> <<0, 0, 0, 0>>, nan |-> FALSE]]
  /\ hist' = [hist EXCEPT !.forced = TRUE]
  /\ UNCHANGED <<settings, pending, ro, tick, cc3d, task, cb, alarm, pub, fault>>

\* ------------------------------------------------- a long trim session
\* a vehicle armed, throttle up, at rest and level: gyros at neutral, one
\* FIFO entry of one g
LevelInput ==
  [rx |-> TRUE, rdonly |-> FALSE, gyro |-> NoGyro, fifo |-> << <<0, 0, 250>> >>,
   mpu |-> NoMpu, armed |-> "ARMED", throttle |-> 50]

\* the statics after one whole iteration of the loop with LevelInput: sensor
\* update, attitude update, then the scheduler of the next iteration
LevelCycle(st) ==
  LET res == SensorUpdate(st, LevelInput)
      fused == IF ro.attitude THEN res.st
               ELSE updateAttitude(res.st, res.frame.accels, res.frame.gyros,
                                   tick)
  IN GainSchedule(fused, task.init, settings, tick, "ARMED")

\* the statics without the trim accumulator and count
WithoutTrim(st) == [st EXCEPT !.trim_accels = <<0, 0, 0>>, !.trim_samples = 0]

\* iterations with LevelInput that change nothing but the trim accumulator
\* and count are taken in one step: n of them bring the count to
\* MAX_TRIM_FLIGHT_SAMPLES - 1 or to MAX_TRIM_FLIGHT_SAMPLES
FastForward(target) ==
  /\ ~fault
  /\ ~cc3d
  /\ task.pc = "sense"
  /\ task.armed = "ARMED"
  /\ ~(ro.gyros \/ ro.accels)
  /\ \A u \in Ticks : u <= tick
  /\ g.trim_requested
  /\ g.trim_samples < target
  /\ LET once == LevelCycle(g)
         twice == LevelCycle(once)
         n == target - g.trim_samples
         a == Rotate(g, AccelAverage(LevelInput.fifo))
         fr == SensorUpdate(g, LevelInput).frame
     IN /\ once.trim_samples = g.trim_samples + 1
        /\ WithoutTrim(twice) = WithoutTrim(once)
        /\ GainScheduleInit(once, task.init, tick, "ARMED") = task.init
        /\ g' = [once EXCEPT
                   !.trim_samples = target,
                   !.trim_accels = << g.trim_accels[1] + n * Div(a[1], RS),
                                      g.trim_accels[2] + n * Div(a[2], RS),
                                      g.trim_accels[3] + n * Div(a[3], RS) >>]
        /\ pub' = [pub EXCEPT !.Gyros = fr.gyros, !.Accels = fr.accels,
                              !.AttitudeActual = IF ro.attitude THEN @
                                                 ELSE once.q]
        /\ hist' = [hist EXCEPT
                      !.trim = [@ EXCEPT !.n = @ + n,
                                         !.read = IF hist.trim.n = 0 THEN a
                                                  ELSE @,
                                         !.same = hist.trim.n = 0
                                                  \/ (@ /\ hist.trim.read = a)]]
  /\ alarm' = "CLEAR"
  /\ UNCHANGED <<settings, pending, ro, tick, cc3d, task, cb, fault>>

\* ---------------------------------------------------------- specifications
Callback == CbFirst \/ CbSecond

AttitudeTask ==
  \/ TaskStart
  \/ StartupWait
  \/ \E tk \in Ticks : ForceSettings(tk)
  \/ \E a \in ArmedStates : Schedule(a)
  \/ \E tk \in Ticks : \E in \in SenseInputs : Sense(in, tk)
  \/ Fuse

\* the vehicle in use: the ground station changes the configuration; the
\* dispatcher runs settingsUpdatedCb to completion before the attitude task
\* gets its samples
Next ==
  \/ \E c \in Configs : SetConfiguration(c)
  \/ Callback
  \/ (cb.pc = "idle" /\ AttitudeTask)

Spec == Init /\ [][Next]_vars

\* a trim flight: the ground station gives trim commands
NextTrim ==
  \/ \E cmd \in TrimCommands : SetTrimFlight(cmd)
  \/ Callback
  \/ (cb.pc = "idle" /\ AttitudeTask)

SpecTrim == Init /\ [][NextTrim]_vars

\* the attitude task's samples may arrive while settingsUpdatedCb is under
\* way: the task preempts the dispatcher
NextPreempt ==
  \/ \E c \in Configs : SetConfiguration(c)
  \/ Callback
  \/ AttitudeTask

SpecPreempt == Init /\ [][NextPreempt]_vars

\* a trim session from start-up on, long enough to fill the accumulator
NextCollect ==
  \/ AttitudeTask
  \/ \E target \in {MAX_TRIM_FLIGHT_SAMPLES - 1, MAX_TRIM_FLIGHT_SAMPLES} :
       FastForward(target)

SpecCollect == InitCollect /\ [][NextCollect]_vars

\* a trim session from start-up on during which the ground station changes
\* other fields of the settings: the trim command stays "start"
NextRetune ==
  \/ \E c \in Configs : SetConfiguration(c)
  \/ Callback
  \/ (cb.pc = "idle" /\ AttitudeTask)

SpecRetune == InitCollect /\ [][NextRetune]_vars

\* the vehicle in use, with one upset of the quaternion
NextUpset ==
  \/ \E c \in Configs : SetConfiguration(c)
  \/ Callback
  \/ (cb.pc = "idle" /\ AttitudeTask)
  \/ ForceQuaternion

SpecUpset == Init /\ [][NextUpset]_vars

\* ------------------------------------------------------------- properties
\* settingsUpdatedCb is about to process "load" (line 614)
AtLoad == cb.pc = "rotation" /\ cb.s.TrimFlight = "LOAD"

\* C1: a trim "load" processed with zero accumulated samples performs no
\* division by zero and leaves AccelBias in the settings unchanged.
C1_LoadWithoutSamplesRejected ==
  [][(AtLoad /\ g.trim_samples = 0)
       => (~fault' /\ settings'.AccelBias = settings.AccelBias)]_vars

\* the readings of the trim session are all (a, a, a), a in raw units
ConstantReading(a) ==
  /\ hist.trim.same
  /\ hist.trim.read = <<a * RS, a * RS, a * RS>>

\* C2: "start", then N >= 1 successful cycles armed with throttle > 0 and
\* the constant raw accel reading (a, a, a), then "load" writes
\* AccelBias = (a, a, a + GRAV / ACCEL_SCALE).
C2_LoadWritesMeanPlusGravity ==
  [][\A a \in {100, 1000} :
       (AtLoad /\ hist.trim.active /\ hist.trim.n >= 1 /\ ConstantReading(a))
         => (~fault' /\ settings'.AccelBias = <<a, a, a + GRAV_RAW>>)]_vars

\* the gain scheduler has just run (lines 212-237)
ScheduleStep == task.pc = "sched" /\ task'.pc = "sense"

\* kp = 1, ki = 0.9, yaw bias rate = 0.23, accel filter off
LevelingInForce ==
  /\ g.accelKp = 100
  /\ g.accelKi = 90
  /\ g.yawBiasRate = 23
  /\ ~g.accel_filter_enabled

\* kp, ki and yaw bias rate are the configured ones
NormalInForce ==
  /\ g.accelKp = settings.AccelKp
  /\ g.accelKi = settings.AccelKi
  /\ g.yawBiasRate = settings.YawBiasRate

Quiescent == ~pending /\ cb.pc = "idle"

\* C4: outside the warm-up window, with the configured settings applied,
\* the scheduler selects Leveling if and only if zero_during_arming is
\* enabled and the arming state is "arming"; otherwise kp, ki and yaw bias
\* rate are the configured ones.
C4_ProfileOutsideWindow ==
  [][(ScheduleStep /\ Quiescent /\ (tick <= 1000 \/ tick >= 7000))
       => IF settings.ZeroDuringArming /\ task'.armed = "ARMING"
          THEN LevelingInForce' /\ ~NormalInForce'
          ELSE NormalInForce' /\ ~LevelingInForce']_vars

\* Leveling was selected after the window because of arming
C4_Witness ==
  /\ task.pc = "sense"
  /\ tick >= 7000
  /\ Quiescent
  /\ settings.ZeroDuringArming
  /\ task.armed = "ARMING"
  /\ LevelingInForce

\* C5: after every attitude update the stored quaternion is a number, has
\* q0 >= 0 and has norm 1 up to the rounding of the representation (two
\* units of 1/QS).
C5_UnitQuaternion ==
  /\ ~g.q.nan
  /\ g.q.v[1] >= 0
  /\ SumSq4(g.q.v) >= (QS - 2) * (QS - 2)
  /\ SumSq4(g.q.v) <= (QS + 2) * (QS + 2)

\* attitude updates turned the quaternion away from the identity
C5_Witness ==
  /\ hist.cycles >= 2
  /\ task.pc = "sched"
  /\ g.q.v[1] < QS - 10
  /\ g.q.v[2] # 0

\* C6: an attitude update that starts from the quaternion (0,0,0,0) stores
\* and publishes the identity, and no step publishes a quaternion that is
\* not a number.
C6_ZeroQuaternionReset ==
  [][/\ ~pub'.AttitudeActual.nan
     /\ (task.pc = "fuse" /\ task'.pc = "sched" /\ ~ro.attitude
           /\ g.q.v = <<0, 0, 0, 0>>)
          => (g'.q = IdentityQ /\ pub'.AttitudeActual = IdentityQ)]_vars

\* the zeroed quaternion was replaced by the identity after the estimate
\* had left the identity
C6_Witness ==
  /\ hist.forced
  /\ task.pc = "sched"
  /\ g.q = IdentityQ
  /\ pub.AttitudeActual = IdentityQ
  /\ g.gyro_correct_int # <<0, 0, 0>>

\* C7: a sensor update whose acquisition fails (queue timeout or empty
\* FIFO, either adapter) reports failure and leaves all statics
\* (quaternion, gyro bias integral, accel bias, rotation, gains, trim
\* accumulator and count) and the published objects as they were; the
\* attitude update is skipped.
C7_FailedAcquisitionNoEffect ==
  [][(task.pc = "sense" /\ task'.acq \in {"timeout", "nodata"})
       => /\ task'.retval # 0
          /\ g' = g
          /\ pub' = pub
          /\ task'.pc = "sched"]_vars

\* an acquisition failed after the statics had moved away from their
\* initial values
C7_Witness ==
  /\ task.acq = "nodata"
  /\ task.pc = "sched"
  /\ g.gyro_correct_int # <<0, 0, 0>>
  /\ g.q # IdentityQ

\* the statics that settingsUpdatedCb derives from the settings alone
Derived(st) ==
  [gyroGain |-> st.gyroGain, accel_alpha |-> st.accel_alpha,
   zero_during_arming |-> st.zero_during_arming,
   bias_correct_gyro |-> st.bias_correct_gyro,
   accelbias |-> st.accelbias, rotate |-> st.rotate, R |-> st.R]

\* the derived statics all come from one configuration
OneSnapshot ==
  \E c \in Configs : Derived(g) = Derived(settingsUpdatedCb(g, c))

\* C8: no sensor update or attitude update observes a mixture of fields of
\* the old and of the new settings.
C8_ConsistentSnapshot ==
  [][((task.pc = "sense" /\ task'.pc = "fuse")
        \/ (task.pc = "fuse" /\ task'.pc = "sched")) => OneSnapshot]_vars

\* settingsUpdatedCb has run lines 561-588
CallbackStep == cb.pc = "idle" /\ cb'.pc = "rotation"

\* C9 as stated: processing a settings update notification leaves the gyro
\* bias integral unchanged.
C9_CallbackKeepsGyroBias ==
  [][CallbackStep => g'.gyro_correct_int = g.gyro_correct_int]_vars

\* C9: processing a settings update notification sets the three components
\* of the gyro bias integral to the InitialGyroBias of the settings; every
\* other change of the integral is made by the sensor update or the
\* attitude update of the attitude task.
C9_CallbackRestartsGyroBias ==
  [][/\ CallbackStep => g'.gyro_correct_int = settings.InitialGyroBias
     /\ g'.gyro_correct_int # g.gyro_correct_int
          => \/ CallbackStep
             \/ task.pc = "wait_accel"
             \/ (task.pc = "sense" /\ task'.acq = "frame")
             \/ (task.pc = "fuse" /\ task'.pc = "sched")]_vars

\* a callback replaced a learned integral by InitialGyroBias
C9_Witness ==
  /\ hist.biasReset
  /\ hist.cycles >= 1
  /\ cb.pc = "rotation"
  /\ g.gyro_correct_int = cb.s.InitialGyroBias

\* C10: at the end of every main-loop iteration the alarm is ERROR if the
\* sensor update of the iteration failed and CLEAR if it succeeded.
C10_AlarmReflectsOutcome ==
  (task.pc = "sched" /\ hist.cycles > 0)
    => (alarm = IF task.retval # 0 THEN "ERROR" ELSE "CLEAR")

\* an alarm raised by a failed acquisition was cleared by the next cycle
C10_Witness ==
  /\ task.pc = "sched"
  /\ hist.cycles >= 2
  /\ hist.failed
  /\ task.retval = 0
  /\ alarm = "CLEAR"

\* a step of the attitude task inside its main loop
CycleStep == task.pc \in {"sched", "sense", "fuse"} /\ task' # task

\* C11: while AttitudeActual is read-only no step of a cycle changes the
\* quaternion, the x and y components of the gyro bias integral or the
\* published attitude.
C11_ReadOnlyAttitudeUntouched ==
  [][(ro.attitude /\ CycleStep)
       => /\ g'.q = g.q
          /\ g'.gyro_correct_int[1] = g.gyro_correct_int[1]
          /\ g'.gyro_correct_int[2] = g.gyro_correct_int[2]
          /\ pub'.AttitudeActual = pub.AttitudeActual]_vars

\* two successful cycles with frames went by with AttitudeActual read-only
C11_Witness ==
  /\ ro.attitude
  /\ task.pc = "sched"
  /\ hist.cycles >= 2
  /\ ~hist.failed
  /\ g.gyro_correct_int[3] # 0
  /\ pub.Gyros # <<0, 0, 0>>
  /\ g.q = IdentityQ

\* C13: in a pass-through cycle (Gyros or Accels read-only) the attitude
\* update is not executed: the step after the sensor update leaves the
\* statics and the published objects as they are.
C13_PassThroughSkipsFusion ==
  [][(task.pc = "fuse" /\ task'.pc = "sched" /\ task.acq = "passthrough")
       => (g' = g /\ pub' = pub)]_vars

\* C12: with Gyros or Accels read-only and a sample received, the adapter
\* reports success and changes neither the published objects nor any
\* static (gyro bias integral, trim accumulator and count included).
C12_PassThroughNoWrite ==
  [][(task.pc = "sense" /\ task'.acq = "passthrough")
       => (task'.retval = 0 /\ pub' = pub /\ g' = g)]_vars

\* a pass-through sensor update during a trim session with the vehicle armed
C12_Witness ==
  /\ task.acq = "passthrough"
  /\ task.pc = "fuse"
  /\ task.retval = 0
  /\ g.trim_requested
  /\ task.armed = "ARMED"
  /\ g.gyro_correct_int # <<0, 0, 0>>

\* the trim accumulator and the sample count
TrimData(st) == <<st.trim_accels, st.trim_samples>>

\* C14: the trim sample count stays within 0 .. 65535; a cycle that gets a
\* frame with the count at 65535 and the session requested clears the
\* requested flag, and no step of the attitude task changes the accumulator
\* or the count once the count is 65535.
C14_TrimSampleCap ==
  [][/\ g'.trim_samples >= 0
     /\ g'.trim_samples <= 65535
     /\ (g.trim_samples = 65535 /\ g.trim_requested
           /\ task.pc = "sense" /\ task'.acq = "frame")
          => ~g'.trim_requested
     /\ (g.trim_samples = 65535 /\ task' # task)
          => TrimData(g') = TrimData(g)]_vars

\* the count reached the cap and two more frames came in with the vehicle
\* armed and throttle applied: the first cleared the flag, the second found
\* it cleared
C14_Witness ==
  /\ g.trim_samples = 65535
  /\ ~g.trim_requested
  /\ hist.trim.n >= 65535 + 2
  /\ hist.cycles >= 1
  /\ task.pc = "fuse"
  /\ task.acq = "frame"
  /\ task.armed = "ARMED"

\* C15: a step of the attitude task changes the trim accumulator or the
\* sample count only if it is a sensor update made while a session is
\* requested, the flight status is ARMED and the throttle is above 0, and
\* then the count goes up by exactly 1; every other step of the task leaves
\* both alone.
C15_CollectOnlyArmedWithThrottle ==
  [][/\ (task' # task /\ task.pc # "sense") => TrimData(g') = TrimData(g)
     /\ \A in \in SenseInputs : \A tk \in Ticks :
          (Sense(in, tk) /\ TrimData(g') # TrimData(g))
            => /\ g.trim_requested
               /\ in.armed = "ARMED"
               /\ in.throttle > 0
               /\ g'.trim_samples = g.trim_samples + 1]_vars

\* a requested session in its second cycle holds exactly one sample: one
\* cycle collected and the other did not
C15_Witness ==
  /\ g.trim_requested
  /\ g.trim_samples = 1
  /\ g.trim_accels # <<0, 0, 0>>
  /\ hist.cycles >= 1
  /\ task.pc = "fuse"
  /\ task.acq = "frame"

\* |x - y| < RS
Within(x, y) == x - y < RS /\ y - x < RS

\* the accumulator moved by the vector v (in 1/RS raw units), cut to int32
AccumulatedBy(v) ==
  \A i \in 1..3 : Within((g'.trim_accels[i] - g.trim_accels[i]) * RS, v[i])

\* a sensor update of the split adapter that collected a trim sample
Collecting(in, tk) ==
  Sense(in, tk) /\ g'.trim_samples = g.trim_samples + 1

\* C16 as stated: the vector added to the trim accumulator in a collecting
\* cycle is the accel reading less the configured accel bias.
C16_AccumulatesBiasCorrected ==
  [][\A in \in SenseInputs : \A tk \in Ticks :
       Collecting(in, tk)
         => AccumulatedBy([i \in 1..3 |->
                             RawReading(g, in)[i] - g.accelbias[i] * RS])]_vars

\* C16: the vector added to the trim accumulator in a collecting cycle is
\* the averaged, rotated raw accel reading, before the configured accel bias
\* is subtracted and before the scaling to physical units.
C16_AccumulatesRawReading ==
  [][\A in \in SenseInputs : \A tk \in Ticks :
       Collecting(in, tk) => AccumulatedBy(RawReading(g, in))]_vars

\* a sample was collected under a non-zero accel bias
C16_Witness ==
  /\ g.accelbias # <<0, 0, 0>>
  /\ g.trim_requested
  /\ g.trim_samples = 1
  /\ hist.trim.n = 1
  /\ g.trim_accels # <<0, 0, 0>>
  /\ task.pc = "fuse"
  /\ task.acq = "frame"

\* a cycle of a requested session below the cap that got a frame with the
\* vehicle armed and throttle applied
CollectingCycle(in, tk) ==
  /\ Sense(in, tk)
  /\ task'.acq = "frame"
  /\ g.trim_requested
  /\ g.trim_samples < MAX_TRIM_FLIGHT_SAMPLES
  /\ in.armed = "ARMED"
  /\ in.throttle > 0

\* C17: with either adapter, each successful cycle of a requested session
\* with the vehicle armed and throttle > 0 increments the sample count.
C17_CollectsOnBothAdapters ==
  [][\A in \in SenseInputs : \A tk \in Ticks :
       CollectingCycle(in, tk) => g'.trim_samples = g.trim_samples + 1]_vars

\* the same for the split adapter alone
C17_CollectsOnSplitAdapter ==
  [][\A in \in SenseInputs : \A tk \in Ticks :
       (CollectingCycle(in, tk) /\ ~cc3d)
         => g'.trim_samples = g.trim_samples + 1]_vars

\* a step that uses the gains: a sensor update that delivers a frame (yaw
\* bias rate) or the attitude update on that frame (kp, ki, accel filter)
UsesGains ==
  \/ task.pc = "sense" /\ task'.acq = "frame"
  \/ task.pc = "fuse" /\ task'.pc = "sched" /\ task.acq = "frame"
       /\ ~ro.attitude

\* C18: in a cycle whose scheduler chose the Leveling profile, the sensor
\* update and the attitude update run with kp = 1, ki = 0.9, yaw bias
\* rate = 0.23 and the accel filter off, whatever the settings and whenever
\* a settings notification is processed.
C18_LevelingGainsUsed ==
  [][(UsesGains /\ task.init = 0) => LevelingInForce]_vars

\* the scheduler's conditions for Leveling, on what it read in this step
LevelingApplies ==
  \/ tick > 1000 /\ tick < 7000
  \/ g.zero_during_arming /\ task'.armed = "ARMING"

\* C19: the scheduler reloads kp, ki and yaw bias rate from the settings
\* (and switches the accel filter on when accel_alpha > 0) in the first
\* cycle outside Leveling after a Leveling cycle or after start-up; in a
\* further cycle outside Leveling it writes nothing; a Leveling cycle arms
\* the reload again.
C19_ReloadEdgeTriggered ==
  [][ScheduleStep
       => /\ task'.init = (IF LevelingApplies THEN 0 ELSE 1)
          /\ (~LevelingApplies /\ task.init = 1) => g' = g
          /\ (~LevelingApplies /\ task.init = 0)
               => /\ g'.accelKp = settings.AccelKp
                  /\ g'.accelKi = settings.AccelKi
                  /\ g'.yawBiasRate = settings.YawBiasRate
                  /\ g'.accel_filter_enabled
                       = (g.accel_alpha > 0 \/ g.accel_filter_enabled)]_vars

\* the scheduler ran at 500 ms and again at 1000 ms, both times outside
\* Leveling: the first run reloaded, the second found init = 1
C19_Witness ==
  /\ task.pc = "sense"
  /\ task.init = 1
  /\ tick = WARMUP_START
  /\ hist.cycles >= 1
  /\ hist.updates = 0
  /\ ~g.zero_during_arming
  /\ NormalInForce

\* the rotated gyro rates of a sample, before the bias integral is applied
RawRates(in) ==
  Rotate(g, IF cc3d THEN in.mpu.gyro ELSE GyroRates(g, in.gyro))

\* C20: a sensor update of either adapter that delivers a frame moves the
\* yaw component of gyro_correct_int by -gyros.z * yawBiasRate whether
\* bias_correct_gyro is set or not, adds gyro_correct_int to the rates only
\* when bias_correct_gyro is set, and leaves the x and y components of
\* gyro_correct_int alone.
C20_YawBiasEveryCycle ==
  [][\A in \in SenseInputs : \A tk \in Ticks :
       (Sense(in, tk) /\ task'.acq = "frame")
         => /\ g'.gyro_correct_int[1] = g.gyro_correct_int[1]
            /\ g'.gyro_correct_int[2] = g.gyro_correct_int[2]
            /\ g'.gyro_correct_int[3]
                 = g.gyro_correct_int[3]
                   + Div(-pub'.Gyros[3] * g.yawBiasRate, 100)
            /\ pub'.Gyros
                 = (IF g.bias_correct_gyro
                    THEN [i \in 1..3 |-> RawRates(in)[i] + g.gyro_correct_int[i]]
                    ELSE RawRates(in))]_vars

\* with bias_correct_gyro cleared, a frame with a yaw rate has moved the yaw
\* integral away from the configured initial bias
C20_Witness ==
  /\ ~g.bias_correct_gyro
  /\ task.pc = "fuse"
  /\ task.acq = "frame"
  /\ pub.Gyros[3] # 0
  /\ g.gyro_correct_int[1] = settings.InitialGyroBias[1]
  /\ g.gyro_correct_int[3] # settings.InitialGyroBias[3]
  /\ ~pending
  /\ cb.pc = "idle"

\* settingsUpdatedCb reaches the trim command (lines 608-624) with "start"
\* in the settings while the session it started is under way
NotifiedInSession ==
  /\ cb.pc = "rotation"
  /\ cb'.pc = "idle"
  /\ cb.s.TrimFlight = "START"
  /\ hist.applied.TrimFlight = "START"
  /\ g.trim_requested

\* C21: a settings notification that leaves the trim command at "start"
\* during a session keeps the samples collected so far: the accumulator
\* and the sample count are as before.
C21_NotificationKeepsSamples ==
  [][NotifiedInSession => TrimData(g') = TrimData(g)]_vars

\* the same for the flag alone: the session stays requested
C21_NotificationKeepsSession ==
  [][NotifiedInSession => g'.trim_requested]_vars

====
